---- MODULE Spec2Model ----
(***************************************************************************)
(* Model of .github/workflows/scripts/extract_sct.py.                      *)
(*                                                                         *)
(* Text is a sequence of one-character strings.  A file system maps path   *)
(* names to a text, or to Missing (the path cannot be opened) or to        *)
(* Undecodable (the file opens, the first read fails to decode).  One      *)
(* behaviour is one invocation of extract_sct_commands on a list of input  *)
(* files, followed at most MaxRuns - 1 times by an invocation that takes   *)
(* the written output file as its only input.  Universal-newline          *)
(* translation of "\r" is not modelled: the texts use "\n" only.           *)
(***************************************************************************)
EXTENDS Integers, Sequences, FiniteSets, TLC

VARIABLES fs, paths, output, idx, opened, rest, results, stdout, pc,
          log, input, run, prevOut

vars == <<fs, paths, output, idx, opened, rest, results, stdout, pc,
          log, input, run, prevOut>>

-----------------------------------------------------------------------------
(* Bounds of the model                                                     *)

MaxLines == 2

MaxFiles == 2

MaxRuns == 2

-----------------------------------------------------------------------------
(* Literals of the source                                                  *)

SP == " "

NL == "\n"

TAB == "\t"

Whitespace == {SP, TAB, NL}

SctPrefix == <<"s", "c", "t", "_">>

CommentedPrefix == <<"#", SP>> \o SctPrefix

MarkerLen == 2

MinTokens == 3

DownloadData == SctPrefix \o <<"d", "o", "w", "n", "l", "o", "a", "d", "_", "d", "a", "t", "a">>

RunBatch == SctPrefix \o <<"r", "u", "n", "_", "b", "a", "t", "c", "h">>

Missing == <<"<missing>">>

Undecodable == <<"<undecodable>">>

None == "None"

EmptyPath == ""

In1 == "in1.txt"

In2 == "in2.txt"

Out == "out.txt"

InputNames == {In1, In2}

Outputs == {None, EmptyPath, Out}

-----------------------------------------------------------------------------
(* String operations of the source, on sequences of characters             *)

StartsWith(s, p) == Len(s) >= Len(p) /\ SubSeq(s, 1, Len(p)) = p

Contains(s, c) == \E i \in 1..Len(s) : s[i] = c

FirstIndex(s, c) ==
    LET I == {i \in 1..Len(s) : s[i] = c}
    IN  IF I = {} THEN 0 ELSE CHOOSE i \in I : \A j \in I : i <= j

LStrip(s) ==
    LET I == {i \in 1..Len(s) : s[i] \notin Whitespace}
    IN  IF I = {} THEN <<>>
        ELSE SubSeq(s, CHOOSE i \in I : \A j \in I : i <= j, Len(s))

RStrip(s) ==
    LET I == {i \in 1..Len(s) : s[i] \notin Whitespace}
    IN  IF I = {} THEN <<>>
        ELSE SubSeq(s, 1, CHOOSE i \in I : \A j \in I : i >= j)

RECURSIVE Split(_)
Split(s) ==
    LET i == FirstIndex(s, SP)
    IN  IF i = 0 THEN <<s>>
        ELSE <<SubSeq(s, 1, i - 1)>> \o Split(SubSeq(s, i + 1, Len(s)))

RECURSIVE JoinLines(_)
JoinLines(ls) ==
    IF ls = <<>> THEN <<>>
    ELSE IF Len(ls) = 1 THEN ls[1]
    ELSE ls[1] \o <<NL>> \o JoinLines(Tail(ls))

PrintText(t) == t \o <<NL>>

(* Iteration over an open text file: the next line with its terminator,    *)
(* or the unterminated remainder at the end of the file.                   *)
NextLine(t) ==
    LET i == FirstIndex(t, NL)
    IN  IF i = 0 THEN t ELSE SubSeq(t, 1, i)

AfterLine(t) == SubSeq(t, Len(NextLine(t)) + 1, Len(t))

-----------------------------------------------------------------------------
(* The body of the loop over the lines                                     *)

NormalizeOneChar(line) ==
    LET stripped == LStrip(line)
    IN  IF StartsWith(stripped, CommentedPrefix)
        THEN SubSeq(stripped, MarkerLen, Len(stripped))
        ELSE stripped

Normalize(line) ==
    LET stripped == LStrip(line)
    IN  IF StartsWith(stripped, CommentedPrefix)
        THEN SubSeq(stripped, MarkerLen + 1, Len(stripped))
        ELSE stripped

QualifiesTwo(stripped) ==
    /\ StartsWith(stripped, SctPrefix)
    /\ Len(Split(stripped)) >= MinTokens - 1
    /\ ~(Contains(stripped, "<") /\ Contains(stripped, ">"))
    /\ ~StartsWith(stripped, DownloadData)
    /\ ~StartsWith(stripped, RunBatch)

QualifiesNoReserved(stripped) ==
    /\ StartsWith(stripped, SctPrefix)
    /\ Len(Split(stripped)) >= MinTokens
    /\ ~(Contains(stripped, "<") /\ Contains(stripped, ">"))
    /\ ~StartsWith(stripped, RunBatch)

QualifiesEitherBracket(stripped) ==
    /\ StartsWith(stripped, SctPrefix)
    /\ Len(Split(stripped)) >= MinTokens
    /\ ~(Contains(stripped, "<") \/ Contains(stripped, ">"))
    /\ ~StartsWith(stripped, DownloadData)
    /\ ~StartsWith(stripped, RunBatch)

Qualifies(stripped) ==
    /\ StartsWith(stripped, SctPrefix)
    /\ Len(Split(stripped)) >= MinTokens
    /\ ~(Contains(stripped, "<") /\ Contains(stripped, ">"))
    /\ ~StartsWith(stripped, DownloadData)
    /\ ~StartsWith(stripped, RunBatch)

CollectFront(res, stripped) == <<RStrip(stripped)>> \o res

CollectUntrimmed(res, stripped) == Append(res, stripped)

Collect(res, stripped) == Append(res, RStrip(stripped))

Truthy(o) == o \notin {None, EmptyPath}

-----------------------------------------------------------------------------
(* Input texts                                                             *)

A3 == SctPrefix \o <<"a", SP, "b", SP, "c">>

A2 == SctPrefix \o <<"a", SP, "b">>

A1 == SctPrefix \o <<"a">>

Bodies ==
    { A3, A2, A1,
      SctPrefix \o <<"a", SP, SP, "b">>,
      SctPrefix \o <<"a", SP, "<", "b", ">", SP, "c">>,
      SctPrefix \o <<"a", SP, ">", "b", SP, "<", "c">>,
      SctPrefix \o <<"a", SP, "<", "b", SP, "c">>,
      SctPrefix \o <<"a", SP, "b", SP, ">">>,
      DownloadData \o <<SP, "b", SP, "c">>,
      RunBatch \o <<SP, "b", SP, "c">>,
      SctPrefix \o <<"r", "u", "n", SP, "b", SP, "c">>,
      <<"x", SP>> \o A3 }

Leads == { <<>>, <<SP>>, <<TAB, SP>> }

Marks == { <<>>, <<"#", SP>>, <<"#">> }

Trails == { <<>>, <<SP>>, <<SP, SP>>, <<TAB>> }

(* Every line a file of one line may hold, without its terminator.         *)
WideLines ==
    { l \o m \o b \o t : l \in Leads, m \in Marks, b \in Bodies, t \in Trails }

(* The lines the files of several lines are made of.                       *)
SeqLines ==
    { A3,
      <<TAB, "#", SP>> \o A3,
      A2 \o <<SP>>,
      A2,
      <<"#", SP>> \o A2 }

RECURSIVE Cat(_)
Cat(ls) == IF ls = <<>> THEN <<>> ELSE ls[1] \o <<NL>> \o Cat(Tail(ls))

LineSeqs(n) == UNION { [1..k -> SeqLines] : k \in 0..n }

(* A text either ends with a terminator or its last line is unterminated.  *)
TextsOf(lineSeqs) ==
    { Cat(ls) : ls \in lineSeqs }
        \cup { SubSeq(Cat(ls), 1, Len(Cat(ls)) - 1) : ls \in lineSeqs \ {<<>>} }

CheckCode ==
    SctPrefix \o <<"c", "h", "e", "c", "k", "_", "c", "o", "d", "e", "(", "\"",
                   "i", "m", "p", "o", "r", "t", SP, "x", "\"", ")">>

Scenario ==
    Cat(<< SctPrefix \o <<"t", "e", "s", "t", "_", "s", "t", "u", "d", "e", "n", "t", "(", ")">>,
           <<"#", SP>> \o CheckCode,
           DownloadData \o <<"(", ")">>,
           SctPrefix \o <<"a", "s", "s", "e", "r", "t", "_", "c", "o", "d", "e", SP,
                          "<", "c", "m", "d", ">">> >>)

SeqTexts == { Cat(ls) : ls \in LineSeqs(MaxLines) } \cup {Scenario}

WideTexts == TextsOf({ <<w>> : w \in WideLines })

OtherTexts == { Cat(<< SctPrefix \o <<"d", SP, "e", SP, "f">> >>) }

OldText == Cat(<< SctPrefix \o <<"o", SP, "l", SP, "d">> >>)

PathLists == UNION { [1..k -> InputNames] : k \in 1..MaxFiles }

-----------------------------------------------------------------------------
(* The state when extract_sct_commands is entered                          *)

Entry ==
    /\ idx = 1
    /\ opened = FALSE
    /\ rest = <<>>
    /\ results = <<>>
    /\ stdout = <<>>
    /\ pc = "open"
    /\ log = <<>>
    /\ input = fs
    /\ run = 1
    /\ prevOut = <<>>

InitSeq ==
    /\ \E t1 \in SeqTexts, t2 \in OtherTexts \cup {Missing, Undecodable},
          o \in {Missing, OldText} :
          fs = (In1 :> t1) @@ (In2 :> t2) @@ (Out :> o)
    /\ paths \in PathLists
    /\ output \in Outputs
    /\ Entry

InitWide ==
    /\ \E t1 \in WideTexts, o \in {Missing, OldText} :
          fs = (In1 :> t1) @@ (In2 :> Missing) @@ (Out :> o)
    /\ paths = <<In1>>
    /\ output \in Outputs
    /\ Entry

Init == InitSeq \/ InitWide

-----------------------------------------------------------------------------
(* Steps of extract_sct_commands                                           *)

Scanning == pc = "open" /\ idx <= Len(paths)

OpenFile ==
    /\ Scanning /\ ~opened
    /\ fs[paths[idx]] # Missing
    /\ opened' = TRUE
    /\ rest' = fs[paths[idx]]
    /\ UNCHANGED <<fs, paths, output, idx, results, stdout, pc, log, input, run, prevOut>>

OpenFailFlush ==
    /\ Scanning /\ ~opened
    /\ fs[paths[idx]] = Missing
    /\ pc' = "error"
    /\ stdout' = stdout \o PrintText(JoinLines(results))
    /\ UNCHANGED <<fs, paths, output, idx, opened, rest, results, log, input, run, prevOut>>

OpenFail ==
    /\ Scanning /\ ~opened
    /\ fs[paths[idx]] = Missing
    /\ pc' = "error"
    /\ UNCHANGED <<fs, paths, output, idx, opened, rest, results, stdout, log, input, run, prevOut>>

ReadFail ==
    /\ Scanning /\ opened
    /\ rest = Undecodable
    /\ pc' = "error"
    /\ opened' = FALSE
    /\ rest' = <<>>
    /\ UNCHANGED <<fs, paths, output, idx, results, stdout, log, input, run, prevOut>>

ReadLine ==
    /\ Scanning /\ opened
    /\ rest # Undecodable /\ rest # <<>>
    /\ LET line == NextLine(rest)
           stripped == Normalize(line)
       IN  /\ results' = IF Qualifies(stripped) THEN Collect(results, stripped)
                         ELSE results
           /\ log' = Append(log, [line |-> line, before |-> results, after |-> results'])
    /\ rest' = AfterLine(rest)
    /\ UNCHANGED <<fs, paths, output, idx, opened, stdout, pc, input, run, prevOut>>

CloseFile ==
    /\ Scanning /\ opened
    /\ rest = <<>>
    /\ opened' = FALSE
    /\ idx' = idx + 1
    /\ UNCHANGED <<fs, paths, output, rest, results, stdout, pc, log, input, run, prevOut>>

WriteAppend ==
    /\ pc = "open" /\ idx > Len(paths)
    /\ Truthy(output)
    /\ fs' = [fs EXCEPT ![output] =
                 IF @ = Missing THEN JoinLines(results) ELSE @ \o JoinLines(results)]
    /\ pc' = "done"
    /\ UNCHANGED <<paths, output, idx, opened, rest, results, stdout, log, input, run, prevOut>>

WriteOutput ==
    /\ pc = "open" /\ idx > Len(paths)
    /\ Truthy(output)
    /\ fs' = [fs EXCEPT ![output] = JoinLines(results)]
    /\ pc' = "done"
    /\ UNCHANGED <<paths, output, idx, opened, rest, results, stdout, log, input, run, prevOut>>

PrintOutput ==
    /\ pc = "open" /\ idx > Len(paths)
    /\ ~Truthy(output)
    /\ stdout' = stdout \o PrintText(JoinLines(results))
    /\ pc' = "done"
    /\ UNCHANGED <<fs, paths, output, idx, opened, rest, results, log, input, run, prevOut>>

(* The caller runs the script again on the file it has just written.       *)
Refeed ==
    /\ pc = "done" /\ run < MaxRuns
    /\ output = Out
    /\ paths' = <<Out>>
    /\ output' \in Outputs
    /\ idx' = 1
    /\ opened' = FALSE
    /\ rest' = <<>>
    /\ results' = <<>>
    /\ stdout' = <<>>
    /\ pc' = "open"
    /\ log' = <<>>
    /\ input' = fs
    /\ run' = run + 1
    /\ prevOut' = fs[Out]
    /\ UNCHANGED fs

Next ==
    \/ OpenFile
    \/ OpenFail
    \/ ReadFail
    \/ ReadLine
    \/ CloseFile
    \/ WriteOutput
    \/ PrintOutput
    \/ Refeed

Spec == Init /\ [][Next]_vars

-----------------------------------------------------------------------------
(* What a run read and what each line did to the results                   *)

RECURSIVE LinesOf(_)
LinesOf(t) == IF t = <<>> THEN <<>> ELSE <<NextLine(t)>> \o LinesOf(AfterLine(t))

RECURSIVE AllLines(_, _)
AllLines(fsys, ps) ==
    IF ps = <<>> THEN <<>> ELSE LinesOf(fsys[ps[1]]) \o AllLines(fsys, Tail(ps))

RECURSIVE Pick(_)
Pick(ls) ==
    IF ls = <<>> THEN <<>>
    ELSE (IF Qualifies(Normalize(ls[1])) THEN <<RStrip(Normalize(ls[1]))>> ELSE <<>>)
             \o Pick(Tail(ls))

ExpectedText(ls) == IF ls = <<>> THEN <<>> ELSE SubSeq(Cat(ls), 1, Len(Cat(ls)) - 1)

AllWs(s) == \A i \in 1..Len(s) : s[i] \in Whitespace

Kept(e) == Len(e.after) = Len(e.before) + 1

Text(e) == e.after[Len(e.after)]

Outcome(e) == IF Kept(e) THEN <<Text(e)>> ELSE <<>>

Entries == { log[i] : i \in DOMAIN log }

Both(s) == Contains(s, "<") /\ Contains(s, ">")

-----------------------------------------------------------------------------
(* C1: when a run completes, its results are exactly the qualifying lines  *)
(* of the input files, in the order of the path list and top to bottom     *)
(* within each file, with nothing dropped, duplicated or reordered.        *)
C1_ScanOrder == pc = "done" => results = Pick(AllLines(input, paths))

C1_Witness ==
    /\ pc = "done" /\ paths = <<In1, In2>>
    /\ Len(results) = 3
    /\ results[1] = results[2] /\ results[2] # results[3]

-----------------------------------------------------------------------------
(* C2 as stated: every collected line is the original line with only its   *)
(* right side trimmed, leading part preserved.                             *)
C2_LeadingPreserved ==
    \A e \in Entries : Kept(e) =>
        /\ Len(Text(e)) <= Len(e.line)
        /\ SubSeq(e.line, 1, Len(Text(e))) = Text(e)
        /\ AllWs(SubSeq(e.line, Len(Text(e)) + 1, Len(e.line)))

(* C2 amended: every collected line is the original line without its       *)
(* leading whitespace, without the two-character marker "# " when one      *)
(* precedes "sct_", and without its trailing whitespace and terminator.    *)
C2_Trimmed ==
    \A e \in Entries : Kept(e) =>
        /\ StartsWith(Text(e), SctPrefix)
        /\ Text(e)[Len(Text(e))] \notin Whitespace
        /\ \E i \in 0..Len(e.line), m \in {<<>>, <<"#", SP>>} :
              LET a == i + Len(m)
                  b == a + Len(Text(e))
              IN  /\ b <= Len(e.line)
                  /\ AllWs(SubSeq(e.line, 1, i))
                  /\ SubSeq(e.line, i + 1, a) = m
                  /\ SubSeq(e.line, a + 1, b) = Text(e)
                  /\ AllWs(SubSeq(e.line, b + 1, Len(e.line)))

C2_Witness ==
    \E e \in Entries :
        /\ Kept(e)
        /\ e.line[1] = TAB
        /\ Contains(e.line, "#")
        /\ Len(e.line) >= Len(Text(e)) + 6

-----------------------------------------------------------------------------
(* The space-separated tokens of a line: the non-empty pieces between the  *)
(* spaces of its content, leading and trailing whitespace set aside.       *)
Tokens(line) ==
    LET pieces == Split(RStrip(Normalize(line)))
    IN  Cardinality({ i \in DOMAIN pieces : pieces[i] # <<>> })

(* C3: a line with the prefix "sct_" (after normalization) is dropped when *)
(* it has fewer than 3 space-separated tokens, whatever its trailing       *)
(* whitespace, terminator or runs of spaces, and is kept when it has 3 or  *)
(* more and passes the other exclusion rules.                              *)
C3_TokenCount ==
    \A e \in Entries : StartsWith(Normalize(e.line), SctPrefix) =>
        /\ Tokens(e.line) < 3 => ~Kept(e)
        /\ ( /\ Tokens(e.line) >= 3
             /\ ~Both(e.line)
             /\ ~StartsWith(Normalize(e.line), DownloadData)
             /\ ~StartsWith(Normalize(e.line), RunBatch) ) => Kept(e)

-----------------------------------------------------------------------------
Commented(c, r) ==
    /\ StartsWith(r, SctPrefix)
    /\ \E i \in 0..Len(c) :
          /\ AllWs(SubSeq(c, 1, i))
          /\ SubSeq(c, i + 1, Len(c)) = <<"#", SP>> \o r

Uncommented(c) == { SubSeq(c, i, Len(c)) : i \in 1..Len(c) }

(* C4: a line made of leading whitespace, the marker "# " and a content R  *)
(* that begins with "sct_" has the same outcome as the line R: both        *)
(* dropped, or both kept with the same collected text.                     *)
C4_CommentedSame ==
    /\ \A e \in Entries, f \in Entries :
          Commented(e.line, f.line) => Outcome(e) = Outcome(f)
    /\ \A e \in Entries : \A r \in Uncommented(e.line) :
          Commented(e.line, r) =>
              Outcome(e) = IF Qualifies(r) THEN <<RStrip(r)>> ELSE <<>>

C4_Witness ==
    \E e \in Entries, f \in Entries :
        /\ Commented(e.line, f.line)
        /\ e.line[1] \in Whitespace
        /\ Kept(e) /\ Kept(f)

-----------------------------------------------------------------------------
(* C5: when a path of the list cannot be opened or read, the run ends in   *)
(* the error, nothing has been printed, and no file has been created or    *)
(* modified, even when earlier files gave results; a run that completes    *)
(* has read every path of its list.                                        *)
C5_FailFast ==
    /\ pc = "error" => stdout = <<>> /\ fs = input
    /\ pc = "done" => \A i \in DOMAIN paths : input[paths[i]] \notin {Missing, Undecodable}

C5_Witness ==
    /\ pc = "error"
    /\ idx = 2 /\ results # <<>>
    /\ output = Out /\ fs[Out] = Missing

-----------------------------------------------------------------------------
(* C6 as stated: the written file holds exactly the newline-joined         *)
(* qualifying lines, and exactly that text is what is printed to standard  *)
(* output without an output path.                                          *)
C6_SameText ==
    pc = "done" =>
        LET text == ExpectedText(Pick(AllLines(input, paths)))
        IN  /\ Truthy(output) => fs[output] = text
            /\ ~Truthy(output) => stdout = text

(* C6 amended: the written file holds exactly the newline-joined           *)
(* qualifying lines, whatever it held before; standard output receives     *)
(* that same text followed by one line terminator.                         *)
C6_RoundTrip ==
    pc = "done" =>
        LET text == ExpectedText(Pick(AllLines(input, paths)))
        IN  /\ Truthy(output) => fs[output] = text /\ stdout = <<>>
            /\ ~Truthy(output) => stdout = text \o <<NL>> /\ fs = input

C6_Witness ==
    /\ pc = "done" /\ output = Out
    /\ input[Out] = OldText
    /\ Len(results) >= 2
    /\ fs[Out] # OldText

-----------------------------------------------------------------------------
ScenarioRun == run = 1 /\ paths = <<In1>> /\ input[In1] = Scenario /\ pc = "done"

(* C7 as stated: from the scenario file only the de-commented second line  *)
(* is in the output.                                                       *)
C7_SecondLineOnly == ScenarioRun => results = <<CheckCode>>

(* C7 amended: from the scenario file nothing is in the output; the        *)
(* de-commented second line has two space-separated tokens and is dropped  *)
(* like the other three.                                                   *)
C7_NothingKept ==
    ScenarioRun =>
        /\ results = <<>>
        /\ Len(log) = 4
        /\ \A e \in Entries : ~Kept(e)
        /\ Truthy(output) => fs[output] = <<>>

C7_Witness == ScenarioRun /\ output = Out

-----------------------------------------------------------------------------
Reserved(s) == StartsWith(s, DownloadData) \/ StartsWith(s, RunBatch)

(* C8: no collected line, and no line of a written output file, starts     *)
(* with "sct_download_data" or "sct_run_batch".                            *)
C8_NoReserved ==
    /\ \A i \in DOMAIN results : ~Reserved(results[i])
    /\ (pc = "done" /\ Truthy(output)) =>
           \A l \in { LinesOf(fs[output])[i] : i \in DOMAIN LinesOf(fs[output]) } :
               ~Reserved(l)

C8_Witness ==
    \E e \in Entries :
        /\ e.line = <<SP, "#", SP>> \o DownloadData \o <<SP, "b", SP, "c", NL>>
        /\ ~Kept(e)

-----------------------------------------------------------------------------
OtherRules(line) ==
    /\ StartsWith(Normalize(line), SctPrefix)
    /\ Len(Split(Normalize(line))) >= MinTokens
    /\ ~Reserved(Normalize(line))

(* C9: a line with both "<" and ">" is dropped even when it meets every    *)
(* other rule, no collected line has both, and a line with only one of     *)
(* them that meets the other rules is kept.                                *)
C9_Placeholders ==
    /\ \A e \in Entries : Both(e.line) => ~Kept(e)
    /\ \A i \in DOMAIN results : ~Both(results[i])
    /\ \A e \in Entries :
          (OtherRules(e.line) /\ ~Both(e.line)) => Kept(e)

C9_Witness ==
    \E e \in Entries :
        /\ OtherRules(e.line)
        /\ Both(e.line)
        /\ FirstIndex(e.line, ">") < FirstIndex(e.line, "<")
        /\ ~Kept(e)

-----------------------------------------------------------------------------
(* C10: a run whose only input is the output file of the previous run      *)
(* yields the same output again.                                           *)
C10_Idempotent ==
    (run > 1 /\ pc = "done") =>
        /\ JoinLines(results) = prevOut
        /\ Truthy(output) => fs[output] = prevOut

====
